---------------------------- MODULE Spec2Model ----------------------------
(***************************************************************************)
(* IOTServerClient: a device-side client that pushes typed variables to a  *)
(* server, pulls the server's variable list, keeps a local cache and       *)
(* dispatches registered handlers on every cache update.                   *)
(*                                                                         *)
(* Texts (Arduino String) are sequences of one-character strings so that   *)
(* formatting and parsing are computed, not assumed.  Variable names are   *)
(* only ever compared with ==, so they are plain strings.                  *)
(***************************************************************************)
EXTENDS Integers, Sequences, FiniteSets, TLC

(***************************************************************************)
(* Characters and texts                                                    *)
(***************************************************************************)
DigitChars == <<"0", "1", "2", "3", "4", "5", "6", "7", "8", "9">>

UpperChars == <<"A", "B", "C", "D", "E", "F", "G", "H", "I", "J", "K", "L", "M",
                "N", "O", "P", "Q", "R", "S", "T", "U", "V", "W", "X", "Y", "Z">>

LowerChars == <<"a", "b", "c", "d", "e", "f", "g", "h", "i", "j", "k", "l", "m",
                "n", "o", "p", "q", "r", "s", "t", "u", "v", "w", "x", "y", "z">>

IsDigit(c) == \E i \in 1..Len(DigitChars) : DigitChars[i] = c

DigitVal(c) == (CHOOSE i \in 1..Len(DigitChars) : DigitChars[i] = c) - 1

IsSpace(c) == c \in {" ", "\t", "\n", "\r"}

\* tolower() of one character
Lower(c) ==
    IF \E i \in 1..Len(UpperChars) : UpperChars[i] = c
    THEN LowerChars[CHOOSE i \in 1..Len(UpperChars) : UpperChars[i] = c]
    ELSE c

\* String::equalsIgnoreCase
equalsIgnoreCase(a, b) ==
    /\ Len(a) = Len(b)
    /\ \A i \in 1..Len(a) : Lower(a[i]) = Lower(b[i])

TxtInt     == <<"i", "n", "t">>
TxtFloat   == <<"f", "l", "o", "a", "t">>
TxtBool    == <<"b", "o", "o", "l">>
TxtBoolean == <<"b", "o", "o", "l", "e", "a", "n">>
TxtString  == <<"s", "t", "r", "i", "n", "g">>
TxtTrue    == <<"t", "r", "u", "e">>
TxtFalse   == <<"f", "a", "l", "s", "e">>
TxtOne     == <<"1">>
\* what JsonVariant::as<String>() gives for a member that is missing
TxtNull    == <<"n", "u", "l", "l">>

RECURSIVE Pow10(_)
Pow10(n) == IF n = 0 THEN 1 ELSE 10 * Pow10(n - 1)

RECURSIVE SkipSpace(_, _)
SkipSpace(s, i) ==
    IF i <= Len(s) /\ IsSpace(s[i]) THEN SkipSpace(s, i + 1) ELSE i

\* the run of decimal digits of s that starts at position i: its value, the
\* number of digits and the position after it
RECURSIVE ParseDigits(_, _, _, _)
ParseDigits(s, i, acc, n) ==
    IF i <= Len(s) /\ IsDigit(s[i])
    THEN ParseDigits(s, i + 1, acc * 10 + DigitVal(s[i]), n + 1)
    ELSE [val |-> acc, count |-> n, next |-> i]

\* the decimal digits of n >= 0
RECURSIVE DigitsOf(_)
DigitsOf(n) ==
    IF n < 10 THEN <<DigitChars[n + 1]>>
    ELSE DigitsOf(n \div 10) \o <<DigitChars[(n % 10) + 1]>>

\* n >= 0 as exactly w digits, zero-padded on the left
RECURSIVE PadDigits(_, _)
PadDigits(n, w) ==
    IF w = 0 THEN <<>>
    ELSE PadDigits(n \div 10, w - 1) \o <<DigitChars[(n % 10) + 1]>>

(***************************************************************************)
(* Conversions between typed values and their text form                    *)
(*                                                                         *)
(* A float is modelled as an integer number of units of                    *)
(* 10^-(FloatDecimals+1): one decimal digit more than the text form keeps, *)
(* so that formatting rounds.                                              *)
(***************************************************************************)
FloatDecimals == 6

FloatUnit == Pow10(FloatDecimals + 1)

\* String(int value)
FormatInt(v) == IF v < 0 THEN <<"-">> \o DigitsOf(-v) ELSE DigitsOf(v)

\* String(float value, 6): fixed notation, FloatDecimals digits after the point
FormatFloat(f) ==
    LET a  == IF f < 0 THEN -f ELSE f
        m  == (a + 5) \div 10
        ip == m \div Pow10(FloatDecimals)
        fp == m % Pow10(FloatDecimals)
    IN  (IF f < 0 THEN <<"-">> ELSE <<>>)
        \o DigitsOf(ip) \o <<".">> \o PadDigits(fp, FloatDecimals)

\* value ? "true" : "false"
FormatBool(b) == IF b THEN TxtTrue ELSE TxtFalse

\* String::toInt (atol): leading blanks, an optional sign, then digits up to
\* the first other character; 0 when there is no digit
toInt(s) ==
    LET i0  == SkipSpace(s, 1)
        sgn == i0 <= Len(s) /\ s[i0] \in {"+", "-"}
        neg == sgn /\ s[i0] = "-"
        p   == ParseDigits(s, IF sgn THEN i0 + 1 ELSE i0, 0, 0)
    IN  IF neg THEN -p.val ELSE p.val

\* String::toFloat (atof) on texts without an exponent: leading blanks, an
\* optional sign, digits, an optional point and digits; 0.0 when there is no digit
toFloat(s) ==
    LET i0  == SkipSpace(s, 1)
        sgn == i0 <= Len(s) /\ s[i0] \in {"+", "-"}
        neg == sgn /\ s[i0] = "-"
        ip  == ParseDigits(s, IF sgn THEN i0 + 1 ELSE i0, 0, 0)
        dot == ip.next <= Len(s) /\ s[ip.next] = "."
        fp  == IF dot THEN ParseDigits(s, ip.next + 1, 0, 0)
               ELSE [val |-> 0, count |-> 0, next |-> ip.next]
        fr  == IF fp.count <= FloatDecimals + 1
               THEN fp.val * Pow10(FloatDecimals + 1 - fp.count)
               ELSE fp.val \div Pow10(fp.count - (FloatDecimals + 1))
        mag == ip.val * FloatUnit + fr
    IN  IF neg THEN -mag ELSE mag

\* (vv.equalsIgnoreCase("true") || vv == "1")
toBool(s) == equalsIgnoreCase(s, TxtTrue) \/ s = TxtOne

(***************************************************************************)
(* Variable types and their labels                                         *)
(***************************************************************************)
VarTypes == {"INT_TYPE", "FLOAT_TYPE", "STRING_TYPE", "BOOLEAN_TYPE"}

varTypeToString(t) ==
    CASE t = "INT_TYPE"     -> TxtInt
      [] t = "FLOAT_TYPE"   -> TxtFloat
      [] t = "BOOLEAN_TYPE" -> TxtBool
      [] t = "STRING_TYPE"  -> TxtString
      [] OTHER              -> TxtString

\* stringToVarType that compares the label as it is written
stringToVarType_exact(s) ==
    IF s = TxtInt THEN "INT_TYPE"
    ELSE IF s = TxtFloat THEN "FLOAT_TYPE"
    ELSE IF s = TxtBool \/ s = TxtBoolean THEN "BOOLEAN_TYPE"
    ELSE "STRING_TYPE"

stringToVarType(s) ==
    IF equalsIgnoreCase(s, TxtInt) THEN "INT_TYPE"
    ELSE IF equalsIgnoreCase(s, TxtFloat) THEN "FLOAT_TYPE"
    ELSE IF equalsIgnoreCase(s, TxtBool) \/ equalsIgnoreCase(s, TxtBoolean)
         THEN "BOOLEAN_TYPE"
    ELSE "STRING_TYPE"


(***************************************************************************)
(* Transport: what one attempt of makeRequest meets                        *)
(*                                                                         *)
(* A response body is described by what the client's JSON calls make of    *)
(* it: whether it is empty, whether deserializeJson accepts it, which      *)
(* "success" member the document then holds ("absent", "true", "false",    *)
(* or "other" for a member that is not a boolean), and the elements of its *)
(* "variables" array.  An element gives, per member, whether it is present *)
(* and its text.                                                           *)
(***************************************************************************)
EmptyBody ==
    [empty |-> TRUE, ok |-> FALSE, success |-> "absent", hasVars |-> FALSE,
     vars |-> <<>>]

JsonBody(ok, success, hasVars, vars) ==
    [empty |-> FALSE, ok |-> ok, success |-> success, hasVars |-> hasVars,
     vars |-> vars]

Elem(name, typeS, val) ==
    [hasName |-> TRUE, name |-> name, hasType |-> TRUE, type |-> typeS,
     hasValue |-> TRUE, value |-> val]

\* one attempt: http.begin() fails, or the request is sent and answered
BeginFails == [begin |-> FALSE, code |-> 0, body |-> EmptyBody]

Answer(code, body) == [begin |-> TRUE, code |-> code, body |-> body]

\* the while loop of makeRequest from `attempts` on; script[i] is what the
\* i-th iteration meets, log holds one entry per iteration made: the
\* endpoint, whether the request was sent, and the HTTP code it got
RECURSIVE requestLoop(_, _, _, _, _)
requestLoop(endpoint, script, retries, attempts, log) ==
    IF ~(attempts <= retries) THEN [res |-> EmptyBody, net |-> log]
    ELSE LET o == script[attempts + 1] IN
         IF ~o.begin
         THEN requestLoop(endpoint, script, retries, attempts + 1,
                          Append(log, [ep |-> endpoint, sent |-> FALSE, code |-> 0]))
         ELSE LET response == IF o.code >= 200 /\ o.code < 300
                              THEN o.body ELSE EmptyBody
                  log2 == Append(log, [ep |-> endpoint, sent |-> TRUE,
                                       code |-> o.code])
              IN  IF ~response.empty THEN [res |-> response, net |-> log2]
                  ELSE requestLoop(endpoint, script, retries, attempts + 1, log2)

\* makeRequest without the isConnected test
makeRequest_noLinkTest(connected, endpoint, script, retries) ==
    requestLoop(endpoint, script, retries, 0, <<>>)

\* makeRequest with the loop test `attempts < retries`: one attempt short
makeRequest_oneShort(connected, endpoint, script, retries) ==
    IF ~connected THEN [res |-> EmptyBody, net |-> <<>>]
    ELSE requestLoop(endpoint, script, retries - 1, 0, <<>>)

\* makeRequest: the response ("" as EmptyBody) and the attempts it made
makeRequest(connected, endpoint, script, retries) ==
    IF ~connected THEN [res |-> EmptyBody, net |-> <<>>]
    ELSE requestLoop(endpoint, script, retries, 0, <<>>)

\* rd["success"] | dflt: the member when it is a boolean, else the default
successOr(body, dflt) ==
    CASE body.success = "true"  -> TRUE
      [] body.success = "false" -> FALSE
      [] OTHER                  -> dflt

DefaultRetries == 1

sendHeartbeat(connected, script) ==
    LET r == makeRequest(connected, "/api/device/heartbeat", script, DefaultRetries)
        ok == IF r.res.empty THEN FALSE
              ELSE IF ~r.res.ok THEN FALSE
              ELSE IF r.res.success # "absent" THEN successOr(r.res, FALSE)
              ELSE TRUE
    IN  [ok |-> ok, net |-> r.net, res |-> r.res]

sendVariable(connected, script) ==
    LET r == makeRequest(connected, "/api/device/variable", script, DefaultRetries)
        ok == IF r.res.empty THEN FALSE
              ELSE IF r.res.ok THEN TRUE
              ELSE IF r.res.success # "absent" THEN successOr(r.res, TRUE)
              ELSE TRUE
    IN  [ok |-> ok, net |-> r.net, res |-> r.res]

(***************************************************************************)
(* Cache and callback registry                                             *)
(***************************************************************************)
NoCb == "none"

\* index of the first cache entry for name, 0 for nullptr
findInCache(c, name) ==
    IF \E i \in 1..Len(c) : c[i].name = name
    THEN CHOOSE i \in 1..Len(c) :
            /\ c[i].name = name
            /\ \A j \in 1..(i - 1) : c[j].name # name
    ELSE 0

\* the calls processUpdate makes, in order; each records the handler, the
\* typed argument and the cache the handler finds when it runs
RECURSIVE processFrom(_, _, _, _, _, _)
processFrom(cbs, i, name, value, type, c) ==
    IF i > Len(cbs) THEN <<>>
    ELSE LET cb == cbs[i]
             call(h, arg) == [h |-> h, name |-> name, type |-> type,
                              arg |-> arg, seen |-> c]
             here ==
               IF cb.name # name THEN <<>>
               ELSE IF type = "INT_TYPE" /\ cb.intCb # NoCb
                    THEN <<call(cb.intCb, toInt(value))>>
               ELSE IF type = "FLOAT_TYPE" /\ cb.floatCb # NoCb
                    THEN <<call(cb.floatCb, toFloat(value))>>
               ELSE IF type = "BOOLEAN_TYPE" /\ cb.boolCb # NoCb
                    THEN <<call(cb.boolCb, toBool(value))>>
               ELSE IF type = "STRING_TYPE" /\ cb.stringCb # NoCb
                    THEN <<call(cb.stringCb, value)>>
               ELSE <<>>
         IN  here \o processFrom(cbs, i + 1, name, value, type, c)

\* processUpdate without the type test: the entry's first handler is called
\* whatever the type of the update
RECURSIVE processAnyFrom(_, _, _, _, _, _)
processAnyFrom(cbs, i, name, value, type, c) ==
    IF i > Len(cbs) THEN <<>>
    ELSE LET cb == cbs[i]
             call(h, arg) == [h |-> h, name |-> name, type |-> type,
                              arg |-> arg, seen |-> c]
             here ==
               IF cb.name # name THEN <<>>
               ELSE IF cb.intCb # NoCb THEN <<call(cb.intCb, toInt(value))>>
               ELSE IF cb.floatCb # NoCb THEN <<call(cb.floatCb, toFloat(value))>>
               ELSE IF cb.boolCb # NoCb THEN <<call(cb.boolCb, toBool(value))>>
               ELSE IF cb.stringCb # NoCb THEN <<call(cb.stringCb, value)>>
               ELSE <<>>
         IN  here \o processAnyFrom(cbs, i + 1, name, value, type, c)

processUpdate_anyType(cbs, name, value, type, c) ==
    processAnyFrom(cbs, 1, name, value, type, c)

processUpdate(cbs, name, value, type, c) ==
    processFrom(cbs, 1, name, value, type, c)

\* updateCache that dispatches before it stores
updateCache_dispatchFirst(c, cbs, name, value, type) ==
    LET i  == findInCache(c, name)
        c2 == IF i # 0
              THEN [c EXCEPT ![i].value = value, ![i].type = type]
              ELSE Append(c, [name |-> name, type |-> type, value |-> value])
    IN  [cache |-> c2, calls |-> processUpdate(cbs, name, value, type, c)]

\* updateCache that leaves the type of an entry it finds
updateCache_valueOnly(c, cbs, name, value, type) ==
    LET i  == findInCache(c, name)
        c2 == IF i # 0
              THEN [c EXCEPT ![i].value = value]
              ELSE Append(c, [name |-> name, type |-> type, value |-> value])
    IN  [cache |-> c2, calls |-> processUpdate(cbs, name, value, type, c2)]

\* updateCache that dispatches only when the entry changed
updateCache_onChange(c, cbs, name, value, type) ==
    LET i  == findInCache(c, name)
        c2 == IF i # 0
              THEN [c EXCEPT ![i].value = value, ![i].type = type]
              ELSE Append(c, [name |-> name, type |-> type, value |-> value])
    IN  [cache |-> c2,
         calls |-> IF c2 = c THEN <<>>
                   ELSE processFrom(cbs, 1, name, value, type, c2)]

\* updateCache that always appends, leaving an older entry in front
updateCache_pushBack(c, cbs, name, value, type) ==
    LET c2 == Append(c, [name |-> name, type |-> type, value |-> value])
    IN  [cache |-> c2, calls |-> processFrom(cbs, 1, name, value, type, c2)]

\* updateCache: the new cache and the calls its processUpdate makes
updateCache(c, cbs, name, value, type) ==
    LET i  == findInCache(c, name)
        c2 == IF i # 0
              THEN [c EXCEPT ![i].value = value, ![i].type = type]
              ELSE Append(c, [name |-> name, type |-> type, value |-> value])
    IN  [cache |-> c2, calls |-> processUpdate(cbs, name, value, type, c2)]

\* virtualWrite that stores the value without dispatching it
virtualWrite_silent(c, cbs, connected, script, name, val, type) ==
    LET s == sendVariable(connected, script)
        u == updateCache(c, <<>>, name, val, type)
    IN  IF s.ok
        THEN [ok |-> TRUE, cache |-> u.cache, calls |-> <<>>,
              net |-> s.net, res |-> s.res]
        ELSE [ok |-> FALSE, cache |-> c, calls |-> <<>>,
              net |-> s.net, res |-> s.res]

\* virtualWrite that updates the cache whatever sendVariable returns
virtualWrite_optimistic(c, cbs, connected, script, name, val, type) ==
    LET s == sendVariable(connected, script)
        u == updateCache(c, cbs, name, val, type)
    IN  [ok |-> s.ok, cache |-> u.cache, calls |-> u.calls,
         net |-> s.net, res |-> s.res]

\* virtualWrite, all four overloads: val is the value's text form
virtualWrite(c, cbs, connected, script, name, val, type) ==
    LET s == sendVariable(connected, script)
        u == updateCache(c, cbs, name, val, type)
    IN  IF s.ok
        THEN [ok |-> TRUE, cache |-> u.cache, calls |-> u.calls,
              net |-> s.net, res |-> s.res]
        ELSE [ok |-> FALSE, cache |-> c, calls |-> <<>>,
              net |-> s.net, res |-> s.res]

\* the for loop of syncNow over the elements of "variables" from i on
RECURSIVE applyFrom(_, _, _, _, _)
applyFrom(arr, i, c, cbs, calls) ==
    IF i > Len(arr) THEN [cache |-> c, calls |-> calls]
    ELSE LET obj   == arr[i]
             name  == IF obj.hasName THEN obj.name ELSE "null"
             typeS == IF obj.hasType THEN obj.type ELSE TxtNull
             val   == IF obj.hasValue THEN obj.value ELSE TxtNull
             vt    == stringToVarType(typeS)
             u     == updateCache(c, cbs, name, val, vt)
         IN  applyFrom(arr, i + 1, u.cache, cbs, calls \o u.calls)

\* syncNow that applies the whole response before any handler runs
syncNow_atomic(c, cbs, connected, script) ==
    LET r == makeRequest(connected, "/api/device/variables", script, DefaultRetries)
        a == applyFrom(r.res.vars, 1, c, cbs, <<>>)
    IN  IF r.res.empty \/ ~r.res.ok \/ ~r.res.hasVars
        THEN [ok |-> FALSE, cache |-> c, calls |-> <<>>,
              net |-> r.net, res |-> r.res]
        ELSE [ok |-> TRUE, cache |-> a.cache,
              calls |-> [k \in 1..Len(a.calls) |->
                           [a.calls[k] EXCEPT !.seen = a.cache]],
              net |-> r.net, res |-> r.res]

\* syncNow that drops what the response does not list
syncNow_replaces(c, cbs, connected, script) ==
    LET r == makeRequest(connected, "/api/device/variables", script, DefaultRetries)
        a == applyFrom(r.res.vars, 1, <<>>, cbs, <<>>)
    IN  IF r.res.empty \/ ~r.res.ok \/ ~r.res.hasVars
        THEN [ok |-> FALSE, cache |-> c, calls |-> <<>>,
              net |-> r.net, res |-> r.res]
        ELSE [ok |-> TRUE, cache |-> a.cache, calls |-> a.calls,
              net |-> r.net, res |-> r.res]

\* syncNow without the containsKey("variables") test
syncNow_noKeyTest(c, cbs, connected, script) ==
    LET r == makeRequest(connected, "/api/device/variables", script, DefaultRetries)
        a == applyFrom(r.res.vars, 1, c, cbs, <<>>)
    IN  IF r.res.empty \/ ~r.res.ok
        THEN [ok |-> FALSE, cache |-> c, calls |-> <<>>,
              net |-> r.net, res |-> r.res]
        ELSE [ok |-> TRUE, cache |-> a.cache, calls |-> a.calls,
              net |-> r.net, res |-> r.res]

syncNow(c, cbs, connected, script) ==
    LET r == makeRequest(connected, "/api/device/variables", script, DefaultRetries)
        a == applyFrom(r.res.vars, 1, c, cbs, <<>>)
    IN  IF r.res.empty \/ ~r.res.ok \/ ~r.res.hasVars
        THEN [ok |-> FALSE, cache |-> c, calls |-> <<>>,
              net |-> r.net, res |-> r.res]
        ELSE [ok |-> TRUE, cache |-> a.cache, calls |-> a.calls,
              net |-> r.net, res |-> r.res]

\* virtualReadBool that answers true for a name it does not find
virtualReadBool_absentTrue(c, name) ==
    IF findInCache(c, name) = 0 THEN TRUE ELSE toBool(c[findInCache(c, name)].value)

\* Read methods
virtualReadInt(c, name) ==
    IF findInCache(c, name) = 0 THEN 0 ELSE toInt(c[findInCache(c, name)].value)

virtualReadFloat(c, name) ==
    IF findInCache(c, name) = 0 THEN 0 ELSE toFloat(c[findInCache(c, name)].value)

virtualReadBool(c, name) ==
    IF findInCache(c, name) = 0 THEN FALSE ELSE toBool(c[findInCache(c, name)].value)

virtualReadString(c, name) ==
    IF findInCache(c, name) = 0 THEN <<>> ELSE c[findInCache(c, name)].value

\* Callback registration: slot is the member the overload assigns
NewEntry(name, type) ==
    [name |-> name, type |-> type, intCb |-> NoCb, floatCb |-> NoCb,
     boolCb |-> NoCb, stringCb |-> NoCb]

SetSlot(e, type, cb) ==
    CASE type = "INT_TYPE"     -> [e EXCEPT !.intCb = cb]
      [] type = "FLOAT_TYPE"   -> [e EXCEPT !.floatCb = cb]
      [] type = "BOOLEAN_TYPE" -> [e EXCEPT !.boolCb = cb]
      [] type = "STRING_TYPE"  -> [e EXCEPT !.stringCb = cb]

\* registration that always adds an entry
onWrite_append(cbs, name, type, cb) ==
    Append(cbs, SetSlot(NewEntry(name, type), type, cb))

\* onWriteInt / onWriteFloat / onWriteBool / onWriteString
onWrite(cbs, name, type, cb) ==
    IF \E i \in 1..Len(cbs) : cbs[i].name = name
    THEN LET i == CHOOSE k \in 1..Len(cbs) :
                     /\ cbs[k].name = name
                     /\ \A j \in 1..(k - 1) : cbs[j].name # name
         IN  [cbs EXCEPT ![i] = SetSlot(cbs[i], type, cb)]
    ELSE Append(cbs, SetSlot(NewEntry(name, type), type, cb))

(***************************************************************************)
(* loop(): one call with millis() = nw                                     *)
(***************************************************************************)
\* millis() and lastHeartbeat are unsigned long; the model's clock has
\* ClockBits bits so that it wraps within reach
ClockBits == 16

RECURSIVE Pow2(_)
Pow2(n) == IF n = 0 THEN 1 ELSE 2 * Pow2(n - 1)

ClockModulus == Pow2(ClockBits)

\* a - b that stops at 0 instead of wrapping
USub_noWrap(a, b) == IF a >= b THEN a - b ELSE 0

\* a - b in unsigned long arithmetic
USub(a, b) == (a - b + ClockModulus) % ClockModulus

DefaultInterval == 30000

\* loop that returns at once when its heartbeat fails
loop_returnsOnFailedBeat(c, cbs, nw, last, interval, conn1, script1, conn2, script2) ==
    LET hb == sendHeartbeat(conn1, script1)
        s  == syncNow(c, cbs, conn2, script2)
    IN  IF USub(nw, last) >= interval /\ hb.ok
        THEN [fired |-> TRUE, hb |-> hb.ok, ok |-> s.ok, cache |-> s.cache,
              calls |-> s.calls, net |-> hb.net \o s.net, res |-> s.res,
              hbRes |-> hb.res, lastHeartbeat |-> nw]
        ELSE IF USub(nw, last) >= interval
        THEN [fired |-> TRUE, hb |-> FALSE, ok |-> FALSE, cache |-> c,
              calls |-> <<>>, net |-> hb.net, res |-> EmptyBody,
              hbRes |-> hb.res, lastHeartbeat |-> last]
        ELSE [fired |-> FALSE, hb |-> FALSE, ok |-> FALSE, cache |-> c,
              calls |-> <<>>, net |-> <<>>, res |-> EmptyBody,
              hbRes |-> EmptyBody, lastHeartbeat |-> last]

\* loop that leaves lastHeartbeat as it was
loop_keepsStamp(c, cbs, nw, last, interval, conn1, script1, conn2, script2) ==
    LET hb == sendHeartbeat(conn1, script1)
        s  == syncNow(c, cbs, conn2, script2)
    IN  IF USub(nw, last) >= interval
        THEN [fired |-> TRUE, hb |-> hb.ok, ok |-> s.ok, cache |-> s.cache,
              calls |-> s.calls, net |-> hb.net \o s.net, res |-> s.res,
              hbRes |-> hb.res, lastHeartbeat |-> last]
        ELSE [fired |-> FALSE, hb |-> FALSE, ok |-> FALSE, cache |-> c,
              calls |-> <<>>, net |-> <<>>, res |-> EmptyBody,
              hbRes |-> EmptyBody, lastHeartbeat |-> last]

\* loop that pulls only after a successful heartbeat
loop_pullIfBeat(c, cbs, nw, last, interval, conn1, script1, conn2, script2) ==
    LET hb == sendHeartbeat(conn1, script1)
        s  == IF hb.ok THEN syncNow(c, cbs, conn2, script2)
              ELSE [ok |-> FALSE, cache |-> c, calls |-> <<>>, net |-> <<>>,
                    res |-> EmptyBody]
    IN  IF USub(nw, last) >= interval
        THEN [fired |-> TRUE, hb |-> hb.ok, ok |-> s.ok, cache |-> s.cache,
              calls |-> s.calls, net |-> hb.net \o s.net, res |-> s.res,
              hbRes |-> hb.res, lastHeartbeat |-> nw]
        ELSE [fired |-> FALSE, hb |-> FALSE, ok |-> FALSE, cache |-> c,
              calls |-> <<>>, net |-> <<>>, res |-> EmptyBody,
              hbRes |-> EmptyBody, lastHeartbeat |-> last]

loop(c, cbs, nw, last, interval, conn1, script1, conn2, script2) ==
    LET hb == sendHeartbeat(conn1, script1)
        s  == syncNow(c, cbs, conn2, script2)
    IN  IF USub(nw, last) >= interval
        THEN [fired |-> TRUE, hb |-> hb.ok, ok |-> s.ok, cache |-> s.cache,
              calls |-> s.calls, net |-> hb.net \o s.net, res |-> s.res,
              hbRes |-> hb.res, lastHeartbeat |-> nw]
        ELSE [fired |-> FALSE, hb |-> FALSE, ok |-> FALSE, cache |-> c,
              calls |-> <<>>, net |-> <<>>, res |-> EmptyBody,
              hbRes |-> EmptyBody, lastHeartbeat |-> last]

(***************************************************************************)
(* State                                                                   *)
(*                                                                         *)
(* cache, callbacks, lastHeartbeat, heartbeatInterval: the client's        *)
(* members.  now: millis().  The rest records the last operation: op (what *)
(* was called, with which inputs, and what it returned), calls (the        *)
(* handlers it invoked, in order), net (the attempts makeRequest made, in  *)
(* order), and the registrations made so far: lastReg (per name, the       *)
(* handler of the latest registration) and regBy (per name and type, the   *)
(* handler of the latest registration of that type), and the names that a  *)
(* push or a pull that returned true has carried so far: known.            *)
(* sinceBeat: the milliseconds that have passed since the latest tick that *)
(* called sendHeartbeat took its millis(), -1 before the first such tick.  *)
(* tickFailed: the heartbeat or the pull of that tick returned false.      *)
(***************************************************************************)
VARIABLES cache, callbacks, lastHeartbeat, heartbeatInterval, now, ticks,
          op, calls, net, lastReg, regBy, known, sinceBeat, tickFailed

clientVars == <<cache, callbacks, lastHeartbeat, heartbeatInterval>>
regVars    == <<lastReg, regBy>>
histVars   == <<lastReg, regBy, known, tickFailed>>
timeVars   == <<now, ticks, sinceBeat>>
vars == <<cache, callbacks, lastHeartbeat, heartbeatInterval, now, ticks,
          op, calls, net, lastReg, regBy, known, sinceBeat, tickFailed>>

Names    == {"x", "y"}
Handlers == {"A", "B"}

\* a typed argument of virtualWrite: a C union of the four overloads
IntArg(v)    == [type |-> "INT_TYPE", i |-> v, f |-> 0, b |-> FALSE, s |-> <<>>]
FloatArg(v)  == [type |-> "FLOAT_TYPE", i |-> 0, f |-> v, b |-> FALSE, s |-> <<>>]
BoolArg(v)   == [type |-> "BOOLEAN_TYPE", i |-> 0, f |-> 0, b |-> v, s |-> <<>>]
StringArg(v) == [type |-> "STRING_TYPE", i |-> 0, f |-> 0, b |-> FALSE, s |-> v]
NoArg        == [type |-> "", i |-> 0, f |-> 0, b |-> FALSE, s |-> <<>>]

\* the text each overload of virtualWrite sends and caches
Format(a) ==
    CASE a.type = "INT_TYPE"     -> FormatInt(a.i)
      [] a.type = "FLOAT_TYPE"   -> FormatFloat(a.f)
      [] a.type = "BOOLEAN_TYPE" -> FormatBool(a.b)
      [] a.type = "STRING_TYPE"  -> a.s

\* op.kind: the operation; name, arg, cb, retries: its arguments; conn: WiFi
\* was connected when it asked (conn2: when loop's pull asked); res: the
\* response its push or pull received (hbRes: loop's heartbeat); ok: what it
\* returned (hb: what loop's heartbeat returned); fired: loop found the
\* interval elapsed; had: the pushed name was cached before the call; gap
\* and prevFailed: sinceBeat and tickFailed when loop was called
NoOp ==
    [kind |-> "construct", name |-> "", arg |-> NoArg, cb |-> NoCb,
     ok |-> FALSE, hb |-> FALSE, fired |-> FALSE, had |-> FALSE,
     conn |-> FALSE, conn2 |-> FALSE, retries |-> 0, res |-> EmptyBody,
     hbRes |-> EmptyBody, gap |-> -1, prevFailed |-> FALSE]

\* the names the elements of a response's "variables" carry
Pulled(res) ==
    {n \in Names : \E i \in 1..Len(res.vars) :
                     res.vars[i].hasName /\ res.vars[i].name = n}

Init ==
    /\ cache = <<>>
    /\ callbacks = <<>>
    /\ lastHeartbeat = 0
    /\ heartbeatInterval = DefaultInterval
    /\ now = 0
    /\ ticks = 0
    /\ op = NoOp
    /\ calls = <<>>
    /\ net = <<>>
    /\ lastReg = [n \in Names |-> NoCb]
    /\ regBy = [n \in Names |-> [t \in VarTypes |-> NoCb]]
    /\ known = {}
    /\ sinceBeat = -1
    /\ tickFailed = FALSE

(***************************************************************************)
(* Operations                                                              *)
(***************************************************************************)
OnWrite(name, type, cb) ==
    /\ callbacks' = onWrite(callbacks, name, type, cb)
    /\ lastReg' = [lastReg EXCEPT ![name] = cb]
    /\ regBy' = [regBy EXCEPT ![name][type] = cb]
    /\ op' = [NoOp EXCEPT !.kind = "onWrite", !.name = name,
                          !.arg = [NoArg EXCEPT !.type = type], !.cb = cb]
    /\ calls' = <<>>
    /\ net' = <<>>
    /\ UNCHANGED <<cache, lastHeartbeat, heartbeatInterval, timeVars, known,
                   tickFailed>>

VirtualWrite(name, arg, connected, script) ==
    \E r \in {virtualWrite(cache, callbacks, connected, script, name,
                           Format(arg), arg.type)} :
        /\ cache' = r.cache
        /\ calls' = r.calls
        /\ net' = r.net
        /\ op' = [NoOp EXCEPT !.kind = "virtualWrite", !.name = name,
                              !.arg = arg, !.ok = r.ok, !.conn = connected,
                              !.res = r.res,
                              !.had = (findInCache(cache, name) # 0)]
        /\ known' = IF r.ok THEN known \cup {name} ELSE known
        /\ UNCHANGED <<callbacks, lastHeartbeat, heartbeatInterval, timeVars,
                       regVars, tickFailed>>

SyncNow(connected, script) ==
    \E r \in {syncNow(cache, callbacks, connected, script)} :
        /\ cache' = r.cache
        /\ calls' = r.calls
        /\ net' = r.net
        /\ op' = [NoOp EXCEPT !.kind = "syncNow", !.ok = r.ok,
                              !.conn = connected, !.res = r.res]
        /\ known' = IF r.ok THEN known \cup Pulled(r.res) ELSE known
        /\ UNCHANGED <<callbacks, lastHeartbeat, heartbeatInterval, timeVars,
                       regVars, tickFailed>>

Loop(conn1, script1, conn2, script2) ==
    \E r \in {loop(cache, callbacks, now, lastHeartbeat, heartbeatInterval,
                   conn1, script1, conn2, script2)} :
        /\ cache' = r.cache
        /\ lastHeartbeat' = r.lastHeartbeat
        /\ calls' = r.calls
        /\ net' = r.net
        /\ op' = [NoOp EXCEPT !.kind = "loop", !.fired = r.fired, !.hb = r.hb,
                              !.ok = r.ok, !.conn = conn1, !.conn2 = conn2,
                              !.res = r.res, !.hbRes = r.hbRes,
                              !.gap = sinceBeat, !.prevFailed = tickFailed]
        /\ known' = IF r.ok THEN known \cup Pulled(r.res) ELSE known
        /\ sinceBeat' = IF r.fired THEN 0 ELSE sinceBeat
        /\ tickFailed' = IF r.fired THEN ~(r.hb /\ r.ok) ELSE tickFailed
        /\ UNCHANGED <<callbacks, heartbeatInterval, now, ticks, regVars>>

Begin ==
    /\ lastHeartbeat' = now
    /\ op' = [NoOp EXCEPT !.kind = "begin", !.ok = TRUE]
    /\ calls' = <<>>
    /\ net' = <<>>
    /\ UNCHANGED <<cache, callbacks, heartbeatInterval, timeVars, histVars>>

SetHeartbeatInterval(ms) ==
    /\ heartbeatInterval' = ms
    /\ op' = [NoOp EXCEPT !.kind = "setHeartbeatInterval"]
    /\ calls' = <<>>
    /\ net' = <<>>
    /\ UNCHANGED <<cache, callbacks, lastHeartbeat, timeVars, histVars>>

\* makeRequest on its own, for any retry count
Request(retries, connected, script) ==
    \E r \in {makeRequest(connected, "/api/device/variables", script, retries)} :
        /\ net' = r.net
        /\ op' = [NoOp EXCEPT !.kind = "makeRequest", !.retries = retries,
                              !.ok = ~r.res.empty, !.conn = connected,
                              !.res = r.res]
        /\ calls' = <<>>
        /\ UNCHANGED <<clientVars, timeVars, histVars>>

\* millis() moves on by d
MaxTicks == 3

Advance(d) ==
    /\ ticks < MaxTicks
    /\ now' = (now + d) % ClockModulus
    /\ ticks' = ticks + 1
    /\ sinceBeat' = IF sinceBeat < 0 THEN sinceBeat ELSE sinceBeat + d
    /\ op' = [NoOp EXCEPT !.kind = "millis"]
    /\ calls' = <<>>
    /\ net' = <<>>
    /\ UNCHANGED <<clientVars, histVars>>

\* millis() moves on by d between two calls of loop(), which the sketch
\* calls again before more time passes once a tick is due
Elapse(d) ==
    /\ USub(now, lastHeartbeat) < heartbeatInterval
    /\ now' = (now + d) % ClockModulus
    /\ sinceBeat' = IF sinceBeat < 0 THEN sinceBeat ELSE sinceBeat + d
    /\ op' = [NoOp EXCEPT !.kind = "millis"]
    /\ calls' = <<>>
    /\ net' = <<>>
    /\ UNCHANGED <<clientVars, ticks, histVars>>

(***************************************************************************)
(* Inputs                                                                  *)
(***************************************************************************)
SeqsUpTo(S, n) == UNION {[1..k -> S] : k \in 0..n}

\* responses to a push or a heartbeat: not JSON; {"success":true};
\* {"success":false}; {} ; {"success":"no"}; and a body cut off after
\* "success":false, which deserializeJson rejects
NotJson      == JsonBody(FALSE, "absent", FALSE, <<>>)
SuccessTrue  == JsonBody(TRUE, "true", FALSE, <<>>)
SuccessFalse == JsonBody(TRUE, "false", FALSE, <<>>)
NoFlag       == JsonBody(TRUE, "absent", FALSE, <<>>)
OtherFlag    == JsonBody(TRUE, "other", FALSE, <<>>)
CutOff       == JsonBody(FALSE, "false", FALSE, <<>>)

\* a pull response cut off after its first element, which deserializeJson
\* rejects: {"variables":[{"name":"x","type":"INT","value":"7"},
CutOffPull ==
    JsonBody(FALSE, "absent", TRUE, <<Elem("x", <<"I", "N", "T">>, <<"7">>)>>)

FlagBodies == {NotJson, SuccessTrue, SuccessFalse, NoFlag, OtherFlag, CutOff}

Unanswered == Answer(404, EmptyBody)

\* what a request meets: WiFi down; WiFi up and nothing on either attempt;
\* WiFi up and body b at once.  A pair <<WiFi connected, script>>.
FirstTry(bodies) ==
    {<<FALSE, <<Unanswered, Unanswered>>>>, <<TRUE, <<Unanswered, Unanswered>>>>}
    \cup {<<TRUE, <<Answer(200, b), Unanswered>>>> : b \in bodies}

\* the elements a pull response is made of; the last has only a name
PullElems ==
    { Elem("x", <<"b", "o", "o", "l">>, <<"t", "r", "u", "e">>),
      Elem("x", <<"I", "N", "T">>, <<"7">>),
      [hasName |-> TRUE, name |-> "y", hasType |-> FALSE, type |-> <<>>,
       hasValue |-> FALSE, value |-> <<>>] }

MaxPull == 2

PullBodies ==
    {NotJson, SuccessTrue, CutOffPull}
    \cup {JsonBody(TRUE, "absent", TRUE, v) : v \in SeqsUpTo(PullElems, MaxPull)}

\* the pushes: <<name, argument>>
Writes ==
    { <<"x", IntArg(7)>>, <<"x", BoolArg(TRUE)>>,
      <<"y", FloatArg(15000000)>>, <<"y", StringArg(<<"a", "b">>)>> }

WriteBodies == {NotJson, SuccessTrue, SuccessFalse, CutOff}

\* the registrations: <<name, type, handler>>
Regs ==
    { <<"x", "INT_TYPE", "A">>, <<"x", "INT_TYPE", "B">>,
      <<"x", "BOOLEAN_TYPE", "B">> }

WriteTransports == FirstTry(WriteBodies)

PullTransports == FirstTry(PullBodies)

(***************************************************************************)
(* Spec: registrations, pushes and pulls                                   *)
(***************************************************************************)
Next ==
    \/ \E r \in Regs : OnWrite(r[1], r[2], r[3])
    \/ \E w \in Writes, t \in WriteTransports : VirtualWrite(w[1], w[2], t[1], t[2])
    \/ \E t \in PullTransports : SyncNow(t[1], t[2])

Spec == Init /\ [][Next]_vars

(***************************************************************************)
(* Vocabulary of the properties                                            *)
(***************************************************************************)
WellFormed(e) == e.hasName /\ e.hasType /\ e.hasValue

\* the response the last operation received lists variables
Listed == ~op.res.empty /\ op.res.ok /\ op.res.hasVars

\* positions of the response's elements that name n
Mentions(arr, n) == {i \in 1..Len(arr) : arr[i].hasName /\ arr[i].name = n}

Max(S) == CHOOSE m \in S : \A k \in S : k <= m

\* the cache entries for name n
Entries(c, n) == {i \in 1..Len(c) : c[i].name = n}

\* the cache holds exactly one entry for n, of type t and text v
Holds(c, n, t, v) ==
    /\ Cardinality(Entries(c, n)) = 1
    /\ \A i \in Entries(c, n) : c[i].type = t /\ c[i].value = v

\* the types for which a handler has been registered for name n
RegTypes(n) == {t \in VarTypes : regBy[n][t] # NoCb}

\* a call without the cache it saw
Bare(call) == [h |-> call.h, name |-> call.name, type |-> call.type, arg |-> call.arg]

\* the typed argument a handler of type t is given for text v
Typed(t, v) ==
    CASE t = "INT_TYPE"     -> toInt(v)
      [] t = "FLOAT_TYPE"   -> toFloat(v)
      [] t = "BOOLEAN_TYPE" -> toBool(v)
      [] OTHER              -> v

\* one call per listed triple whose name and type have a registered handler
RECURSIVE ExpectedCalls(_, _)
ExpectedCalls(arr, i) ==
    IF i > Len(arr) THEN <<>>
    ELSE LET t == stringToVarType(arr[i].type)
             h == regBy[arr[i].name][t]
         IN  (IF h # NoCb
              THEN <<[h |-> h, name |-> arr[i].name, type |-> t,
                      arg |-> Typed(t, arr[i].value)]>>
              ELSE <<>>)
             \o ExpectedCalls(arr, i + 1)

(***************************************************************************)
(* Properties of pushes, pulls and dispatch (under Spec)                   *)
(***************************************************************************)

\* C1: a push whose non-empty response is parseable JSON with a success flag
\* set to false returns false and leaves the cache unchanged.  (The claim
\* goes on to say that every other non-empty response gives true; this is
\* the part the code decides by the test on deserializeJson's result.)
C1_SuccessFalseFailsWrite ==
    [][ ( /\ op'.kind = "virtualWrite"
          /\ ~op'.res.empty /\ op'.res.ok /\ op'.res.success = "false" )
        => (~op'.ok /\ cache' = cache) ]_vars

\* C2: a handler that is invoked for a name is the handler of the latest
\* registration for that name, whatever the types of the registrations.
C2_LastRegistrationWins ==
    \A i \in 1..Len(calls) :
        calls[i].name \in Names => calls[i].h = lastReg[calls[i].name]

\* C3: when virtualWrite returns false the cache is what it was before the
\* call and no handler was invoked.
C3_FailedWriteLeavesCache ==
    [][ (op'.kind = "virtualWrite" /\ ~op'.ok)
        => (cache' = cache /\ calls' = <<>>) ]_vars

\* a push of a cached name with a handler of the pushed type met no answer
\* on either attempt and returned false
C3_Witness ==
    /\ op.kind = "virtualWrite" /\ ~op.ok /\ op.conn /\ Len(net) = 2
    /\ Entries(cache, op.name) # {}
    /\ regBy[op.name][op.arg.type] # NoCb

\* C4: a pull whose response holds a malformed element reports failure and
\* leaves the cache as it was.
C4_MalformedEntryFailsPull ==
    [][ ( /\ op'.kind = "syncNow"
          /\ ~op'.res.empty /\ op'.res.ok /\ op'.res.hasVars
          /\ \E i \in 1..Len(op'.res.vars) : ~WellFormed(op'.res.vars[i]) )
        => (~op'.ok /\ cache' = cache) ]_vars

\* C5: a pull that got no response, a body that is not decodable, or a body
\* without a variables key returns false, changes no cache entry and invokes
\* no handler.
C5_FailedPullLeavesCache ==
    [][ ( /\ op'.kind = "syncNow"
          /\ (op'.res.empty \/ ~op'.res.ok \/ ~op'.res.hasVars) )
        => (~op'.ok /\ cache' = cache /\ calls' = <<>>) ]_vars

\* a pull answered by JSON without a variables key, with a cached variable
\* and a handler registered
C5_Witness ==
    /\ op.kind = "syncNow" /\ ~op.ok
    /\ ~op.res.empty /\ op.res.ok /\ ~op.res.hasVars
    /\ cache # <<>> /\ callbacks # <<>>

\* the effects of a pull of well-formed triples are in calls and cache
PullApplied ==
    /\ [i \in 1..Len(calls) |-> Bare(calls[i])] = ExpectedCalls(op.res.vars, 1)
    /\ \A n \in Names :
         Mentions(op.res.vars, n) # {}
         => LET e == op.res.vars[Max(Mentions(op.res.vars, n))]
            IN  Holds(cache, n, stringToVarType(e.type), e.value)

\* C8: after a successful pull of well-formed triples the handlers invoked
\* are, in order, one per listed triple whose name and type have a handler
\* (so k listings give k calls, changed value or not), and each listed name
\* is cached once with the type and value of its last listing.
C8_PullAppliesEveryTriple ==
    ( /\ op.kind = "syncNow" /\ op.ok
      /\ \A i \in 1..Len(op.res.vars) : WellFormed(op.res.vars[i]) )
    => PullApplied

\* a pull listed the same triple twice and its handler ran twice
C8_Witness ==
    /\ op.kind = "syncNow" /\ op.ok
    /\ Len(op.res.vars) = 2 /\ op.res.vars[1] = op.res.vars[2]
    /\ WellFormed(op.res.vars[1])
    /\ Len(calls) = 2

\* the last update the operation made to name n: <<type, text>>, or <<>>
LastUpdate(n) ==
    IF op.kind = "virtualWrite" /\ op.ok /\ op.name = n
    THEN <<op.arg.type, Format(op.arg)>>
    ELSE IF op.kind \in {"syncNow", "loop"} /\ op.ok
            /\ Mentions(op.res.vars, n) # {}
    THEN LET e == op.res.vars[Max(Mentions(op.res.vars, n))]
         IN  <<stringToVarType(IF e.hasType THEN e.type ELSE TxtNull),
               IF e.hasValue THEN e.value ELSE TxtNull>>
    ELSE <<>>

\* C9: for a name with handlers of exactly one type T, an update of another
\* type invokes no handler, and the cache then holds the update's type and
\* value.
C9_TypeMismatchSuppressesDispatch ==
    \A n \in Names :
        Cardinality(RegTypes(n)) = 1
        => /\ \A i \in 1..Len(calls) :
                calls[i].name = n => calls[i].type \in RegTypes(n)
           /\ (LastUpdate(n) # <<>> /\ LastUpdate(n)[1] \notin RegTypes(n))
              => Holds(cache, n, LastUpdate(n)[1], LastUpdate(n)[2])

\* x has an integer handler only; a boolean was pushed to x and cached, and
\* no handler ran
C9_Witness ==
    /\ RegTypes("x") = {"INT_TYPE"}
    /\ op.kind = "virtualWrite" /\ op.ok /\ op.name = "x"
    /\ op.arg.type = "BOOLEAN_TYPE"
    /\ calls = <<>>
    /\ Holds(cache, "x", "BOOLEAN_TYPE", TxtTrue)

(***************************************************************************)
(* SpecRequest: the retry loop, for itself with any retry count and inside *)
(* heartbeat, push and pull                                                *)
(***************************************************************************)
MaxRetries == 2

\* {"success":true,"variables":[{"name":"x","type":"bool","value":"true"}]}
FullBody ==
    JsonBody(TRUE, "true", TRUE,
             <<Elem("x", <<"b", "o", "o", "l">>, <<"t", "r", "u", "e">>)>>)

\* WiFi down, or WiFi up and each of n attempts meeting one of outs
Retried(n, outs) ==
    {<<FALSE, [i \in 1..n |-> BeginFails]>>}
    \cup {<<TRUE, sc>> : sc \in [1..n -> outs]}

RequestTransports ==
    Retried(MaxRetries + 1, {BeginFails, Answer(200, EmptyBody), Answer(200, FullBody)})

TwoTryTransports ==
    Retried(DefaultRetries + 1,
            {BeginFails, Answer(200, EmptyBody), Answer(300, FullBody),
             Answer(200, FullBody)})

OneTryTransports == FirstTry({FullBody})

NextRequest ==
    \/ \E r \in 0..MaxRetries, t \in RequestTransports : Request(r, t[1], t[2])
    \/ \E t \in TwoTryTransports : VirtualWrite("x", BoolArg(TRUE), t[1], t[2])
    \/ \E t \in TwoTryTransports : SyncNow(t[1], t[2])
    \/ \E t1 \in TwoTryTransports, t2 \in OneTryTransports :
          Loop(t1[1], t1[2], t2[1], t2[2])
    \/ Advance(DefaultInterval)

SpecRequest == Init /\ [][NextRequest]_vars

\* the attempts the last operation made at endpoint ep
Attempts(ep) == Cardinality({i \in 1..Len(net) : net[i].ep = ep})

\* C6: with WiFi connected and every attempt returning nothing, a request
\* with retry count r makes exactly r+1 attempts and the operation reports
\* failure (2 attempts for heartbeat, push and pull, whose count is 1); no
\* request makes more than r+1 attempts.
C6_RetryBound ==
    /\ (op.kind = "makeRequest" /\ op.conn /\ op.res.empty)
       => (Len(net) = op.retries + 1 /\ ~op.ok)
    /\ op.kind = "makeRequest" => Len(net) <= op.retries + 1
    /\ (op.kind \in {"virtualWrite", "syncNow"} /\ op.conn /\ op.res.empty)
       => (Len(net) = 2 /\ ~op.ok)
    /\ (op.kind = "loop" /\ op.fired /\ op.conn /\ op.hbRes.empty)
       => (Attempts("/api/device/heartbeat") = 2 /\ ~op.hb)
    /\ (op.kind = "loop" /\ op.fired /\ op.conn2 /\ op.res.empty)
       => (Attempts("/api/device/variables") = 2 /\ ~op.ok)
    /\ op.kind \in {"virtualWrite", "syncNow", "loop"}
       => \A i \in 1..Len(net) : Attempts(net[i].ep) <= 2

\* a heartbeat met nothing on both attempts while WiFi was connected
C6_Witness ==
    /\ op.kind = "loop" /\ op.fired /\ op.conn /\ op.hbRes.empty
    /\ Attempts("/api/device/heartbeat") = 2
    /\ \A i \in 1..Len(net) : net[i].ep = "/api/device/heartbeat" => net[i].sent

(***************************************************************************)
(* SpecTick: the periodic tick                                             *)
(***************************************************************************)
TickRegs == {<<"x", "BOOLEAN_TYPE", "A">>}

TickDeltas == {10000, 20000}

TickIntervals == {20000}

HeartbeatTransports == FirstTry({NotJson, SuccessFalse, NoFlag})

TickPullTransports == FirstTry({NotJson, FullBody})

NextTick ==
    \/ \E t1 \in HeartbeatTransports, t2 \in TickPullTransports :
          Loop(t1[1], t1[2], t2[1], t2[2])
    \/ \E d \in TickDeltas : Advance(d)
    \/ Begin
    \/ \E ms \in TickIntervals : SetHeartbeatInterval(ms)
    \/ \E r \in TickRegs : OnWrite(r[1], r[2], r[3])

SpecTick == Init /\ [][NextTick]_vars

\* positions in net of the attempts at endpoint ep
At(ep) == {i \in 1..Len(net) : net[i].ep = ep}

\* what a tick that found the interval elapsed has done
TickDone ==
    /\ lastHeartbeat = now
    /\ op.conn => At("/api/device/heartbeat") # {}
    /\ op.conn2 => At("/api/device/variables") # {}
    /\ \A i \in At("/api/device/heartbeat"), j \in At("/api/device/variables") : i < j
    /\ Listed => (op.ok /\ PullApplied)

\* C7: a tick that finds the interval elapsed sends the heartbeat, then
\* attempts the pull whatever the heartbeat's outcome, applies the pull's
\* cache updates and dispatches when the pull succeeds, and sets
\* lastHeartbeat to its now whatever the outcomes.
C7_TickPullsAndAdvances ==
    [][ (op'.kind = "loop" /\ USub(now, lastHeartbeat) >= heartbeatInterval)
        => TickDone' ]_vars

\* a tick whose heartbeat failed pulled, cached and dispatched a variable
C7_Witness ==
    /\ op.kind = "loop" /\ op.fired /\ op.conn /\ ~op.hb
    /\ op.ok /\ calls # <<>> /\ cache # <<>>
    /\ lastHeartbeat = now /\ now > 0

(***************************************************************************)
(* SpecWrite: pushes of many values, each read back                        *)
(***************************************************************************)
WriteValues ==
    { IntArg(-12), IntArg(305),
      FloatArg(-2500000), FloatArg(12345678), FloatArg(4),
      BoolArg(TRUE), BoolArg(FALSE),
      StringArg(<<"a", "b">>), StringArg(<<"T", "R", "U", "E">>) }

ManyWrites ==
    {<<"x", a>> : a \in WriteValues} \cup {<<"y", IntArg(305)>>}

ReadBackTransports == FirstTry({SuccessTrue, NotJson, CutOff})

ReadBackRegs == {<<"x", "FLOAT_TYPE", "A">>, <<"x", "STRING_TYPE", "B">>}

NextWrite ==
    \/ \E w \in ManyWrites, t \in ReadBackTransports :
          VirtualWrite(w[1], w[2], t[1], t[2])
    \/ \E t \in OneTryTransports : SyncNow(t[1], t[2])
    \/ \E r \in ReadBackRegs : OnWrite(r[1], r[2], r[3])

SpecWrite == Init /\ [][NextWrite]_vars

\* the float that the 6-decimal text of f denotes: f rounded to 6 decimals
Rounded(f) ==
    IF f < 0 THEN -(((-f + 5) \div 10) * 10) ELSE ((f + 5) \div 10) * 10

\* C10: after virtualWrite(name, value) answered by a success response, the
\* reader of the value's type returns for that name the written value (a
\* float as its 6-decimal text gives it), whatever the cache held before.
C10_WriteThenRead ==
    ( /\ op.kind = "virtualWrite"
      /\ ~op.res.empty /\ op.res.ok /\ op.res.success = "true" )
    => CASE op.arg.type = "INT_TYPE" ->
              virtualReadInt(cache, op.name) = op.arg.i
         [] op.arg.type = "FLOAT_TYPE" ->
              virtualReadFloat(cache, op.name) = Rounded(op.arg.f)
         [] op.arg.type = "BOOLEAN_TYPE" ->
              virtualReadBool(cache, op.name) = op.arg.b
         [] op.arg.type = "STRING_TYPE" ->
              virtualReadString(cache, op.name) = op.arg.s

\* a float with a seventh decimal was pushed to a name that was cached
\* already, and reads back rounded
C10_Witness ==
    /\ op.kind = "virtualWrite" /\ op.ok /\ op.res.success = "true"
    /\ op.had /\ op.name = "x" /\ op.arg = FloatArg(12345678)
    /\ virtualReadFloat(cache, "x") = 12345680
    /\ Len(cache) = 2

(***************************************************************************)
(* Further properties of pushes (under SpecWrite)                          *)
(***************************************************************************)
\* what a pull of the one triple (name, label of type, text) does to cache c
PulledOnce(c, cbs, name, type, val) ==
    applyFrom(<<Elem(name, varTypeToString(type), val)>>, 1, c, cbs, <<>>)

\* the value a push of argument a hands on: the argument itself, a float as
\* its 6-decimal text gives it
WrittenValue(a) ==
    CASE a.type = "INT_TYPE"     -> a.i
      [] a.type = "FLOAT_TYPE"   -> Rounded(a.f)
      [] a.type = "BOOLEAN_TYPE" -> a.b
      [] a.type = "STRING_TYPE"  -> a.s

\* the calls a push of argument a to name n has to make
WriteCalls(n, a) ==
    IF regBy[n][a.type] # NoCb
    THEN <<[h |-> regBy[n][a.type], name |-> n, type |-> a.type,
            arg |-> WrittenValue(a)]>>
    ELSE <<>>

\* C11: a virtualWrite that returns true leaves the cache holding the pushed
\* type and the locally formatted text for the name, whatever the response
\* said, and cache and calls are those a pull of that one triple would give:
\* the handler registered for the name and type is called once with the
\* written value, and no other handler is called.
C11_WriteDispatchesLocalValue ==
    [][ (op'.kind = "virtualWrite" /\ op'.ok)
        => LET n == op'.name
               a == op'.arg
               p == PulledOnce(cache, callbacks, n, a.type, Format(a))
           IN  /\ Holds(cache', n, a.type, Format(a))
               /\ cache' = p.cache
               /\ calls' = p.calls
               /\ [i \in 1..Len(calls') |-> Bare(calls'[i])] = WriteCalls(n, a) ]_vars

\* a float with a seventh decimal was pushed to a cached name, the response
\* was not JSON, and the float handler ran once with the rounded value and
\* found it cached
C11_Witness ==
    /\ op.kind = "virtualWrite" /\ op.ok /\ op.had
    /\ op.res = NotJson
    /\ op.name = "x" /\ op.arg = FloatArg(12345678)
    /\ Len(calls) = 1
    /\ calls[1].h = "A" /\ calls[1].arg = 12345680
    /\ calls[1].seen = cache

(***************************************************************************)
(* Properties of the cache over whole runs (under Spec)                    *)
(***************************************************************************)
\* the four readers return their zero for name n
ReadsZero(c, n) ==
    /\ virtualReadInt(c, n) = 0
    /\ virtualReadFloat(c, n) = 0
    /\ virtualReadBool(c, n) = FALSE
    /\ virtualReadString(c, n) = <<>>

\* C12: in every state, for a name that no push and no pull that returned
\* true has carried so far, the readers return 0, 0.0, false and the empty
\* text; failed pushes and failed pulls of the name do not change this.
C12_UnknownNameReadsZero ==
    \A n \in Names \ known : ReadsZero(cache, n)

\* a pull whose cut-off response listed x has just failed, x was never
\* pushed or pulled with success, y is cached, and x reads as zero
C12_Witness ==
    /\ op.kind = "syncNow" /\ ~op.ok /\ op.conn
    /\ "x" \in Pulled(op.res)
    /\ "x" \notin known /\ "y" \in known
    /\ cache # <<>>
    /\ ReadsZero(cache, "x")

(***************************************************************************)
(* Further properties of the tick (under SpecTick)                         *)
(***************************************************************************)
\* the response holds a success member that is a boolean
CarriesFlag(res) ==
    ~res.empty /\ res.ok /\ res.success \in {"true", "false"}

\* C13: the heartbeat of a tick returns false when its response is empty,
\* and true when its response is non-empty and carries no parseable success
\* flag, a body that is not decodable JSON included.
C13_HeartbeatLenient ==
    (op.kind = "loop" /\ op.fired)
    => /\ op.hbRes.empty => ~op.hb
       /\ (~op.hbRes.empty /\ ~CarriesFlag(op.hbRes)) => op.hb

\* C14: a tick that finds less than heartbeatInterval elapsed makes no
\* request and changes neither cache nor lastHeartbeat; and a tick that
\* starts a heartbeat after an earlier one does so at least heartbeatInterval
\* (its value at that tick) after the tick of the earlier one, whatever came
\* of the requests.
C14_QuietTickAndSpacing ==
    [][ op'.kind = "loop"
        => /\ USub(now, lastHeartbeat) < heartbeatInterval
              => /\ net' = <<>> /\ calls' = <<>>
                 /\ cache' = cache
                 /\ lastHeartbeat' = lastHeartbeat
           /\ (op'.fired /\ sinceBeat >= 0)
              => sinceBeat >= heartbeatInterval ]_vars

\* a tick sent the second heartbeat of the run, every request of it failed
\* although WiFi was connected, and a variable pulled earlier is cached
C14_Witness ==
    /\ op.kind = "loop" /\ op.fired /\ op.gap >= heartbeatInterval
    /\ op.conn /\ op.conn2 /\ ~op.hb /\ ~op.ok
    /\ Len(net) = 4
    /\ cache # <<>>
    /\ sinceBeat = 0

(***************************************************************************)
(* SpecLink: every operation, with WiFi coming and going                   *)
(***************************************************************************)
LinkRegs == {<<"x", "BOOLEAN_TYPE", "A">>, <<"y", "INT_TYPE", "B">>}

LinkWrites == {<<"x", BoolArg(FALSE)>>, <<"y", IntArg(7)>>}

LinkWriteTransports == FirstTry({SuccessTrue})

\* {"variables":[{"name":"x","type":"bool","value":"true"},
\*               {"name":"x","type":"INT","value":"7"}]}
TwoTypes ==
    JsonBody(TRUE, "absent", TRUE,
             <<Elem("x", <<"b", "o", "o", "l">>, <<"t", "r", "u", "e">>),
               Elem("x", <<"I", "N", "T">>, <<"7">>)>>)

LinkPullTransports == FirstTry({FullBody, TwoTypes})

NextLink ==
    \/ \E r \in LinkRegs : OnWrite(r[1], r[2], r[3])
    \/ \E w \in LinkWrites, t \in LinkWriteTransports :
          VirtualWrite(w[1], w[2], t[1], t[2])
    \/ \E t \in LinkPullTransports : SyncNow(t[1], t[2])
    \/ \E t1 \in OneTryTransports, t2 \in LinkPullTransports :
          Loop(t1[1], t1[2], t2[1], t2[2])
    \/ Advance(DefaultInterval)

SpecLink == Init /\ [][NextLink]_vars

\* C15: with WiFi not connected, a push, a pull and a tick's heartbeat and
\* pull each return false without a single attempt, and leave the cache and
\* the callback registry as they were (no handler is called).
C15_OfflineShortCircuits ==
    [][ /\ (op'.kind \in {"virtualWrite", "syncNow"} /\ ~op'.conn)
           => /\ ~op'.ok /\ net' = <<>> /\ calls' = <<>>
              /\ cache' = cache /\ callbacks' = callbacks
        /\ (op'.kind = "loop" /\ op'.fired /\ ~op'.conn)
           => /\ ~op'.hb /\ At("/api/device/heartbeat")' = {}
              /\ callbacks' = callbacks
        /\ (op'.kind = "loop" /\ op'.fired /\ ~op'.conn2)
           => /\ ~op'.ok /\ At("/api/device/variables")' = {} /\ calls' = <<>>
              /\ cache' = cache /\ callbacks' = callbacks ]_vars

\* a tick found the interval elapsed while WiFi was down: neither request
\* was attempted, and the cached variables and the registered handlers are
\* still there
C15_Witness ==
    /\ op.kind = "loop" /\ op.fired /\ ~op.conn /\ ~op.conn2
    /\ ~op.hb /\ ~op.ok /\ net = <<>>
    /\ Len(cache) = 2 /\ Len(callbacks) = 2

\* no two entries of cache c have the same name
OnePerName(c) ==
    \A i, j \in 1..Len(c) : c[i].name = c[j].name => i = j

\* C16: in every state reached by pushes, pulls, ticks and registrations the
\* cache has at most one entry per name, also each time a handler looks at
\* it; and the entry of a name the last operation updated has both the type
\* and the value of that update, whatever type and value it had before.
C16_OneEntryPerName ==
    /\ OnePerName(cache)
    /\ \A k \in 1..Len(calls) :
          /\ OnePerName(calls[k].seen)
          /\ \A i \in Entries(calls[k].seen, calls[k].name) :
                calls[k].seen[i].type = calls[k].type
    /\ \A n \in Names :
          LastUpdate(n) # <<>>
          => Holds(cache, n, LastUpdate(n)[1], LastUpdate(n)[2])

\* a tick pulled x as a boolean and then as an integer while y was cached
\* too: the handler of the boolean saw x as a boolean, and x is an integer
\* now
C16_Witness ==
    /\ op.kind = "loop" /\ op.ok /\ op.res = TwoTypes
    /\ Len(cache) = 2
    /\ Len(calls) = 1 /\ calls[1].type = "BOOLEAN_TYPE"
    /\ Holds(calls[1].seen, "x", "BOOLEAN_TYPE", TxtTrue)
    /\ Holds(cache, "x", "INT_TYPE", <<"7">>)

(***************************************************************************)
(* Further properties of dispatch (under Spec)                             *)
(***************************************************************************)
\* the handlers an entry of the registry holds
Slots(e) == {e.intCb, e.floatCb, e.boolCb, e.stringCb} \ {NoCb}

\* C17: whatever registrations were made, the registry has at most one entry
\* per name, a push calls at most one handler, and a pull calls at most one
\* handler per element of its response.
C17_OneHandlerPerUpdate ==
    /\ OnePerName(callbacks)
    /\ op.kind = "virtualWrite" => Len(calls) <= 1
    /\ op.kind = "syncNow" => Len(calls) <= Len(op.res.vars)
    /\ \A n \in Names :
          Cardinality(Mentions(op.res.vars, n)) <= 1
          => Cardinality({k \in 1..Len(calls) : calls[k].name = n}) <= 1

\* one registry entry holds an integer handler A and a boolean handler B for
\* x; a push of an integer to x called A and nothing else
C17_Witness ==
    /\ \E i \in 1..Len(callbacks) :
          callbacks[i].name = "x" /\ Slots(callbacks[i]) = {"A", "B"}
    /\ lastReg["x"] = "A"
    /\ op.kind = "virtualWrite" /\ op.ok /\ op.name = "x"
    /\ op.arg.type = "INT_TYPE"
    /\ Len(calls) = 1 /\ calls[1].h = "A"

(***************************************************************************)
(* Further properties of the cache (under SpecLink)                        *)
(***************************************************************************)
\* C18: every operation leaves each cache entry in its place under its
\* name, and leaves the type and value of every entry whose name it did not
\* update: a failed push or pull, a push of another name, a pull whose
\* response omits the name.
C18_CachedNameStays ==
    [][ \A n \in Names : \A i \in Entries(cache, n) :
           /\ i \in Entries(cache', n)
           /\ LastUpdate(n)' = <<>> => cache'[i] = cache[i] ]_vars

\* a pull that listed x alone succeeded, and y, pushed earlier, is cached
\* with the value of that push
C18_Witness ==
    /\ op.kind = "syncNow" /\ op.ok /\ op.res = FullBody
    /\ "y" \in known
    /\ Holds(cache, "y", "INT_TYPE", <<"7">>)
    /\ Holds(cache, "x", "BOOLEAN_TYPE", TxtTrue)
    /\ cache[1].name = "y"

(***************************************************************************)
(* Order of cache update and dispatch (under Spec)                         *)
(***************************************************************************)
\* what the reader of type t returns for name n from cache c
ReadAs(t, c, n) ==
    CASE t = "INT_TYPE"     -> virtualReadInt(c, n)
      [] t = "FLOAT_TYPE"   -> virtualReadFloat(c, n)
      [] t = "BOOLEAN_TYPE" -> virtualReadBool(c, n)
      [] OTHER              -> virtualReadString(c, n)

\* C19: each handler that is called finds the cache holding one entry for
\* its name, of the dispatched type, and the reader of that type returns to
\* it the value it was called with.
C19_UpdatePrecedesDispatch ==
    \A k \in 1..Len(calls) :
        LET c == calls[k].seen
            n == calls[k].name
        IN  /\ Cardinality(Entries(c, n)) = 1
            /\ \A i \in Entries(c, n) : c[i].type = calls[k].type
            /\ ReadAs(calls[k].type, c, n) = calls[k].arg

\* a pull listed x as a boolean and then as an integer: handler B found the
\* boolean cached, handler A after it the integer
C19_Witness ==
    /\ op.kind = "syncNow" /\ op.ok /\ Len(op.res.vars) = 2
    /\ Len(calls) = 2
    /\ calls[1].h = "B" /\ calls[1].type = "BOOLEAN_TYPE" /\ calls[1].arg = TRUE
    /\ Holds(calls[1].seen, "x", "BOOLEAN_TYPE", TxtTrue)
    /\ calls[2].h = "A" /\ calls[2].type = "INT_TYPE" /\ calls[2].arg = 7
    /\ Holds(calls[2].seen, "x", "INT_TYPE", <<"7">>)

(***************************************************************************)
(* SpecLive: loop() is called for ever while millis() moves on             *)
(***************************************************************************)
\* the step of millis(): an eighth of the clock's range
LiveStep == Pow2(ClockBits - 3)

LoopLive ==
    \E t1 \in HeartbeatTransports, t2 \in TickPullTransports :
        Loop(t1[1], t1[2], t2[1], t2[2])

NextLive ==
    \/ LoopLive
    \/ Elapse(LiveStep)
    \/ \E r \in TickRegs : OnWrite(r[1], r[2], r[3])

\* the sketch's loop() runs for ever and calls the client's loop() on every
\* pass; millis() keeps counting
SpecLive ==
    Init /\ [][NextLive]_vars /\ WF_vars(LoopLive) /\ WF_vars(Elapse(LiveStep))

\* a tick has just found the interval elapsed, and its heartbeat or its pull
\* returned false
FailedTick == op.kind = "loop" /\ op.fired /\ (~op.hb \/ ~op.ok)

\* C20: after a tick whose heartbeat or pull failed, time passes and then a
\* tick again finds the interval elapsed: it sends the heartbeat and attempts
\* the pull (when WiFi is connected), and when the pull's response lists
\* variables they are cached and dispatched.
C20_TickCycleGoesOn ==
    [](FailedTick => <>(op.kind = "millis"
                        /\ <>(op.kind = "loop" /\ op.fired /\ TickDone)))

\* the tick before failed with WiFi down; this tick, an interval later, sent
\* its heartbeat and pulled x into the cache
C20_Witness ==
    /\ op.kind = "loop" /\ op.fired /\ op.prevFailed
    /\ op.gap >= heartbeatInterval
    /\ op.conn /\ op.hb /\ op.ok
    /\ At("/api/device/heartbeat") # {} /\ At("/api/device/variables") # {}
    /\ Holds(cache, "x", "BOOLEAN_TYPE", TxtTrue)
    /\ ~tickFailed

(***************************************************************************)
(* SpecLabel: pulls whose type labels are written in every way             *)
(***************************************************************************)
\* toupper() of one character
Upper(c) ==
    IF \E i \in 1..Len(LowerChars) : LowerChars[i] = c
    THEN UpperChars[CHOOSE i \in 1..Len(LowerChars) : LowerChars[i] = c]
    ELSE c

\* the ways of writing word w from position i on, in upper and lower case
RECURSIVE CaseVariants(_, _)
CaseVariants(w, i) ==
    IF i > Len(w) THEN {<<>>}
    ELSE {<<c>> \o rest : c \in {w[i], Upper(w[i])},
                          rest \in CaseVariants(w, i + 1)}

\* labels the mapping knows, labels it does not know, and the label of an
\* element that has no type member
KnownLabels ==
    CaseVariants(TxtInt, 1) \cup CaseVariants(TxtFloat, 1)
    \cup CaseVariants(TxtBool, 1)
    \cup {TxtBoolean, <<"B", "O", "O", "L", "E", "A", "N">>,
          <<"B", "o", "o", "l", "e", "a", "n">>}

OtherLabels ==
    {TxtString, <<"S", "t", "r", "i", "n", "g">>, <<>>, <<"i", "n">>,
     <<"i", "n", "t", " ">>, <<"i", "n", "t", "e", "g", "e", "r">>,
     <<"d", "o", "u", "b", "l", "e">>, <<"b", "o", "o", "l", "s">>, TxtNull}

Labels == KnownLabels \cup OtherLabels

LabelRegs == {<<"x", "STRING_TYPE", "A">>, <<"x", "BOOLEAN_TYPE", "B">>}

LabelWrites == {<<"x", FloatArg(15000000)>>, <<"y", IntArg(7)>>}

Answered(body) == <<Answer(200, body), Unanswered>>

\* the server lists x with label l
LabelBody(l) == JsonBody(TRUE, "absent", TRUE, <<Elem("x", l, TxtOne)>>)

\* the server lists what cache c holds, each type under the label that
\* sendVariable gives it
EchoVars(c) ==
    [i \in 1..Len(c) |-> Elem(c[i].name, varTypeToString(c[i].type), c[i].value)]

NextLabel ==
    \/ \E r \in LabelRegs : OnWrite(r[1], r[2], r[3])
    \/ \E w \in LabelWrites : VirtualWrite(w[1], w[2], TRUE, Answered(SuccessTrue))
    \/ \E l \in Labels : SyncNow(TRUE, Answered(LabelBody(l)))
    \/ SyncNow(TRUE, Answered(JsonBody(TRUE, "absent", TRUE, EchoVars(cache))))

SpecLabel == Init /\ [][NextLabel]_vars

\* label l in lower case
Lowered(l) == [i \in 1..Len(l) |-> Lower(l[i])]

\* the type a label stands for
LabelType(l) ==
    CASE Lowered(l) = TxtInt                 -> "INT_TYPE"
      [] Lowered(l) = TxtFloat               -> "FLOAT_TYPE"
      [] Lowered(l) \in {TxtBool, TxtBoolean} -> "BOOLEAN_TYPE"
      [] OTHER                               -> "STRING_TYPE"

\* one call per listed triple whose name has a handler of its label's type
RECURSIVE LabelCalls(_, _)
LabelCalls(arr, i) ==
    IF i > Len(arr) THEN <<>>
    ELSE LET t == LabelType(arr[i].type)
             h == regBy[arr[i].name][t]
         IN  (IF h # NoCb
              THEN <<[h |-> h, name |-> arr[i].name, type |-> t,
                      arg |-> Typed(t, arr[i].value)]>>
              ELSE <<>>)
             \o LabelCalls(arr, i + 1)

\* C21: the label of each of the four types maps back to the type, so a
\* pull that lists the cache under the labels pushes use leaves it as it is;
\* a pulled label stands for the type whose label it is in any mix of upper
\* and lower case, "boolean" for Boolean, and any other label for Text, and
\* the triple is cached and dispatched with that type.
C21_LabelsRoundTrip ==
    [][ (op'.kind = "syncNow" /\ op'.ok)
        => /\ \A t \in VarTypes : stringToVarType(varTypeToString(t)) = t
           /\ \A n \in Names :
                 Mentions(op'.res.vars, n) # {}
                 => LET e == op'.res.vars[Max(Mentions(op'.res.vars, n))]
                    IN  Holds(cache', n, LabelType(e.type), e.value)
           /\ [i \in 1..Len(calls') |-> Bare(calls'[i])]
                 = LabelCalls(op'.res.vars, 1)
           /\ op'.res.vars = EchoVars(cache) => cache' = cache ]_vars

\* a pull listed x with the label "double": x is cached as Text and the
\* text handler was called with the value's text
C21_Witness ==
    /\ op.kind = "syncNow" /\ op.ok
    /\ Len(op.res.vars) = 1
    /\ op.res.vars[1].type = <<"d", "o", "u", "b", "l", "e">>
    /\ Holds(cache, "x", "STRING_TYPE", TxtOne)
    /\ Len(calls) = 1 /\ calls[1].h = "A" /\ calls[1].type = "STRING_TYPE"
    /\ calls[1].arg = TxtOne
    /\ Len(cache) = 2

(***************************************************************************)
(* SpecBatch: pulls of several variables, with handlers looking on         *)
(***************************************************************************)
BatchRegs == {<<"x", "BOOLEAN_TYPE", "A">>, <<"y", "INT_TYPE", "B">>}

BatchWrites == {<<"x", BoolArg(FALSE)>>, <<"y", IntArg(3)>>}

BatchElems ==
    { Elem("x", TxtBool, TxtTrue), Elem("y", TxtInt, <<"7">>),
      Elem("y", <<"I", "N", "T">>, <<"9">>) }

BatchBodies ==
    {JsonBody(TRUE, "absent", TRUE, v) : v \in SeqsUpTo(BatchElems, MaxPull)}

NextBatch ==
    \/ \E r \in BatchRegs : OnWrite(r[1], r[2], r[3])
    \/ \E w \in BatchWrites : VirtualWrite(w[1], w[2], TRUE, Answered(SuccessTrue))
    \/ \E t \in FirstTry(BatchBodies) : SyncNow(t[1], t[2])

SpecBatch == Init /\ [][NextBatch]_vars

\* the positions of the response's elements for which a handler is called
Dispatching(arr) ==
    {i \in 1..Len(arr) : regBy[arr[i].name][stringToVarType(arr[i].type)] # NoCb}

\* the position of the element that the k-th call is for
ElemOfCall(arr, k) ==
    CHOOSE i \in Dispatching(arr) :
        Cardinality({j \in Dispatching(arr) : j <= i}) = k

\* cache seen is cache before with elements 1..i of arr applied to it
AppliedUpTo(seen, before, arr, i) ==
    \A n \in Names :
        LET M == {j \in Mentions(arr, n) : j <= i}
        IN  IF M # {}
            THEN Holds(seen, n, stringToVarType(arr[Max(M)].type), arr[Max(M)].value)
            ELSE /\ Entries(seen, n) = Entries(before, n)
                 /\ \A e \in Entries(before, n) : seen[e] = before[e]

\* C22: in a successful pull the handler called for the i-th element of the
\* response finds the cache with elements 1..i applied and every name that
\* only later elements list as it was before the pull.
C22_HandlersSeePartialPull ==
    [][ (op'.kind = "syncNow" /\ op'.ok)
        => /\ Len(calls') = Cardinality(Dispatching(op'.res.vars))
           /\ \A k \in 1..Len(calls') :
                 AppliedUpTo(calls'[k].seen, cache, op'.res.vars,
                             ElemOfCall(op'.res.vars, k)) ]_vars

\* a pull listed x and then y: the handler of x found x changed and y as it
\* was pushed before, the handler of y found both as they are now
C22_Witness ==
    /\ op.kind = "syncNow" /\ op.ok /\ Len(op.res.vars) = 2
    /\ Len(calls) = 2
    /\ calls[1].name = "x" /\ calls[2].name = "y"
    /\ Holds(calls[1].seen, "x", "BOOLEAN_TYPE", TxtTrue)
    /\ Holds(calls[1].seen, "y", "INT_TYPE", <<"3">>)
    /\ calls[2].seen = cache
    /\ Holds(cache, "y", "INT_TYPE", <<"7">>)

(***************************************************************************)
(* SpecWrap: ticks while millis() runs past the end of its range           *)
(***************************************************************************)
WrapSteps == {20000, 30000, 60000}

NextWrap ==
    \/ \E t1 \in OneTryTransports, t2 \in OneTryTransports :
          Loop(t1[1], t1[2], t2[1], t2[2])
    \/ \E d \in WrapSteps : Advance(d)
    \/ \E ms \in TickIntervals : SetHeartbeatInterval(ms)

SpecWrap == Init /\ [][NextWrap]_vars

\* C23: when lastHeartbeat was stamped by a tick and less than the clock's
\* range of time has passed since, now - lastHeartbeat in the clock's
\* arithmetic is the time that has passed, and loop finds the interval
\* elapsed exactly when that time is at least heartbeatInterval; also when
\* millis() has wrapped around since the stamp.
C23_ElapsedTestAcrossWrap ==
    [][ (op'.kind = "loop" /\ sinceBeat >= 0 /\ sinceBeat < ClockModulus)
        => /\ USub(now, lastHeartbeat) = sinceBeat
           /\ op'.fired <=> (sinceBeat >= heartbeatInterval) ]_vars

\* millis() wrapped around since the tick before (more time has passed than
\* the clock now shows), less than its range has passed, and this tick found
\* the interval elapsed
C23_Witness ==
    /\ op.kind = "loop" /\ op.fired
    /\ op.gap > now /\ op.gap < ClockModulus
    /\ op.gap >= heartbeatInterval
    /\ lastHeartbeat = now

=============================================================================
